---------------------------- MODULE Spec2Model ----------------------------
(***************************************************************************)
(* Model of mcdrs: the memcached ASCII stream codec (endpoint/src/frame),  *)
(* the per-connection handler (endpoint/src/handle_socket.rs) and the      *)
(* in-memory backend (storage/src/hash_map_storage.rs).                    *)
(*                                                                         *)
(* A byte is a one-character string; SP, CR and LF are the bytes 0x20,     *)
(* 0x0D and 0x0A and XFF is a byte that is not valid UTF-8.  A byte        *)
(* string (BytesMut, String) is a sequence of bytes.  An Option<T> is a    *)
(* sequence of length at most one: <<>> is None and <<v>> is Some(v).      *)
(* An integer (u32, u64, i64) is its canonical decimal string, the one     *)
(* Display prints, so that parsing and printing are real conversions and   *)
(* the 32- and 64-bit ranges are kept exactly.                             *)
(***************************************************************************)
EXTENDS Integers, Sequences, FiniteSets, TLC

SP == " "
CR == "CR"
LF == "LF"
XFF == "xFF"

None == <<>>
Some(v) == <<v>>

Digits == <<"0", "1", "2", "3", "4", "5", "6", "7", "8", "9">>

IsDigit(b) == \E i \in 1..10 : Digits[i] = b

\* char::to_digit(10) of an ASCII digit
DigitVal(b) == (CHOOSE i \in 1..10 : Digits[i] = b) - 1

\* char::is_whitespace over the bytes of the model
IsWhitespace(b) == b \in {SP, CR, LF}

\* String::from_utf8(..).is_ok(): every byte but XFF is ASCII
IsUtf8(s) == \A i \in 1..Len(s) : s[i] # XFF

RECURSIVE trim_end(_)
trim_end(s) ==
    IF s # <<>> /\ IsWhitespace(s[Len(s)])
    THEN trim_end(SubSeq(s, 1, Len(s) - 1))
    ELSE s

RECURSIVE trim_start(_)
trim_start(s) ==
    IF s # <<>> /\ IsWhitespace(s[1]) THEN trim_start(Tail(s)) ELSE s

\* str::trim
trim(s) == trim_start(trim_end(s))

\* iter().position(|v| *v == b): the 1-based index of the first b, 0 if none
Position(s, b) ==
    IF \E i \in 1..Len(s) : s[i] = b
    THEN CHOOSE i \in 1..Len(s) : s[i] = b /\ \A j \in 1..(i - 1) : s[j] # b
    ELSE 0

position_space(src) == Position(src, SP)

position_newline(src) == Position(src, LF)

(***************************************************************************)
(* The result of reading a token is [tag, val, src]: tag is "Some", "None" *)
(* or "Err" (io::Result<Option<_>>), val the value of a "Some", src the    *)
(* buffer the call leaves behind.                                          *)
(***************************************************************************)
Tok(tag, val, src) == [tag |-> tag, val |-> val, src |-> src]

\* split_to(index), advance(1), from_utf8, trim_end: the bytes leave the
\* buffer before the UTF-8 check
SplitAt(src, index) ==
    LET data == SubSeq(src, 1, index - 1)
        rest == SubSeq(src, index + 1, Len(src))
    IN IF IsUtf8(data) THEN Tok("Some", trim_end(data), rest)
                       ELSE Tok("Err", <<>>, rest)

substring_spaced(src) ==
    IF position_space(src) = 0 THEN Tok("None", <<>>, src)
    ELSE SplitAt(src, position_space(src))

substring_newlined(src) ==
    IF position_newline(src) = 0 THEN Tok("None", <<>>, src)
    ELSE SplitAt(src, position_newline(src))

(***************************************************************************)
(* Integers.  <T as FromStr>::from_str for u32, u64 and i64, with the      *)
(* error kinds of core::num::IntErrorKind.  The digits are read left to    *)
(* right and the first failure decides.                                    *)
(***************************************************************************)
U32_MAX == <<"4", "2", "9", "4", "9", "6", "7", "2", "9", "5">>
U64_MAX == <<"1", "8", "4", "4", "6", "7", "4", "4", "0", "7", "3", "7", "0", "9", "5", "5", "1", "6", "1", "5">>
I64_MAX == <<"9", "2", "2", "3", "3", "7", "2", "0", "3", "6", "8", "5", "4", "7", "7", "5", "8", "0", "7">>
I64_MIN_MAGNITUDE == <<"9", "2", "2", "3", "3", "7", "2", "0", "3", "6", "8", "5", "4", "7", "7", "5", "8", "0", "8">>

RECURSIVE StripZeros(_)
StripZeros(d) == IF d # <<>> /\ d[1] = "0" THEN StripZeros(Tail(d)) ELSE d

\* a < b for digit strings without leading zeros
RECURSIVE LexLess(_, _)
LexLess(a, b) ==
    IF a = <<>> THEN FALSE
    ELSE IF a[1] # b[1] THEN DigitVal(a[1]) < DigitVal(b[1])
    ELSE LexLess(Tail(a), Tail(b))

MagLess(a, b) ==
    LET x == StripZeros(a)
        y == StripZeros(b)
    IN \/ Len(x) < Len(y)
       \/ Len(x) = Len(y) /\ LexLess(x, y)

\* the longest prefix of s made of ASCII digits
RECURSIVE DigitPrefix(_)
DigitPrefix(s) ==
    IF s # <<>> /\ IsDigit(s[1]) THEN <<s[1]>> \o DigitPrefix(Tail(s)) ELSE <<>>

\* Display of an integer of magnitude d (a digit string), negative or not
Canonical(negative, d) ==
    LET m == StripZeros(d)
    IN IF m = <<>> THEN <<"0">>
       ELSE IF negative THEN <<"-">> \o m ELSE m

Parsed(kind, val) == [kind |-> kind, val |-> val]

\* from_str_radix(src, 10) for a type with the given signedness and range
from_str(s, is_signed_ty, max, min_magnitude) ==
    IF s = <<>> THEN Parsed("Empty", <<>>)
    ELSE IF s \in {<<"+">>, <<"-">>} THEN Parsed("InvalidDigit", <<>>)
    ELSE LET is_positive == ~(s[1] = "-" /\ is_signed_ty)
             digits == IF s[1] = "+" \/ ~is_positive THEN Tail(s) ELSE s
             d == DigitPrefix(digits)
         IN IF is_positive /\ MagLess(max, d) THEN Parsed("PosOverflow", <<>>)
            ELSE IF ~is_positive /\ MagLess(min_magnitude, d)
                 THEN Parsed("NegOverflow", <<>>)
            ELSE IF d # digits THEN Parsed("InvalidDigit", <<>>)
            ELSE Parsed("Ok", Canonical(~is_positive, d))

\* flags parsed with the range of a u64
U32FromStrWide(s) == from_str(s, FALSE, U64_MAX, <<>>)

u32_from_str(s) == from_str(s, FALSE, U32_MAX, <<>>)
u64_from_str(s) == from_str(s, FALSE, U64_MAX, <<>>)
i64_from_str(s) == from_str(s, TRUE, I64_MAX, I64_MIN_MAGNITUDE)

\* MapToInteger::map_to_integer: an invalid digit is Ok(None), any other
\* failure an error; src is the buffer the token was taken from
map_to_integer(parsed, src) ==
    IF parsed.kind = "Ok" THEN Tok("Some", parsed.val, src)
    ELSE IF parsed.kind = "InvalidDigit" THEN Tok("None", <<>>, src)
    ELSE Tok("Err", <<>>, src)

\* src.substring_..()?.map_to_u32(): the ? returns the token's error, a
\* missing token stays missing
map_to_u32(tok) ==
    IF tok.tag = "Some" THEN map_to_integer(u32_from_str(tok.val), tok.src) ELSE tok

map_to_u64(tok) ==
    IF tok.tag = "Some" THEN map_to_integer(u64_from_str(tok.val), tok.src) ELSE tok

map_to_i64(tok) ==
    IF tok.tag = "Some" THEN map_to_integer(i64_from_str(tok.val), tok.src) ELSE tok

\* Option<T>::or_else_result: a filled slot is returned and the buffer is
\* left alone, an empty one is read from the buffer (read is the outcome
\* of the closure)
or_else_result(slot, read, src) ==
    IF slot # None THEN Tok("Some", slot[1], src) ELSE read

(***************************************************************************)
(* The codec.  MemcachedCodec is a record of six Option slots; a request   *)
(* is a record whose unused fields are empty.                              *)
(***************************************************************************)
MemcachedCodec_default ==
    [command |-> None, key |-> None, flags |-> None, expire |-> None,
     number_of_bytes |-> None, diff |-> None]

MemcachedRequest(op, key, flags, expire, value, diff) ==
    [op |-> op, key |-> key, flags |-> flags, expire |-> expire,
     value |-> value, diff |-> diff]

NoRequest == MemcachedRequest("", <<>>, <<>>, <<>>, <<>>, <<>>)

\* the outcome of a decode step: io::Result<Option<_>> as tag, the payload
\* of a Some, the codec and the buffer after the step
Decoded(tag, req, codec, src) ==
    [tag |-> tag, req |-> req, codec |-> codec, src |-> src]

\* the command names of decode_impl's match, as byte strings
CmdSet == <<"s", "e", "t">>
CmdAdd == <<"a", "d", "d">>
CmdReplace == <<"r", "e", "p", "l", "a", "c", "e">>
CmdAppend == <<"a", "p", "p", "e", "n", "d">>
CmdPrepend == <<"p", "r", "e", "p", "e", "n", "d">>
CmdGet == <<"g", "e", "t">>
CmdDelete == <<"d", "e", "l", "e", "t", "e">>
CmdIncr == <<"i", "n", "c", "r">>
CmdDecr == <<"d", "e", "c", "r">>
CmdStats == <<"s", "t", "a", "t", "s">>
CmdVersion == <<"v", "e", "r", "s", "i", "o", "n">>

\* a u64 as a usize, for a digit string short enough to be a length here
RECURSIVE ToNat(_)
ToNat(d) ==
    IF d = <<>> THEN 0
    ELSE 10 * ToNat(SubSeq(d, 1, Len(d) - 1)) + DigitVal(d[Len(d)])

\* !(src.len() < number_of_bytes): a number of ten or more digits is
\* larger than the length of any buffer of the model
FitsBuffer(n, src) == Len(n) < 10 /\ ToNat(n) <= Len(src)

\* an incomplete step that throws the buffer away
IncompleteDropsBuffer(t, c) == Decoded(t.tag, NoRequest, c, <<>>)

\* a step that did not produce its token returns what the read returned
\* (Ok(None) or the error) with the slots filled so far
Incomplete(t, c) == Decoded(t.tag, NoRequest, c, t.src)

\* get, delete: the key runs to the LF and is not kept in the slot
KeyRequestWith(op, c, k) ==
    IF k.tag # "Some" THEN Incomplete(k, c)
    ELSE Decoded("Some", MemcachedRequest(op, k.val, <<>>, <<>>, <<>>, <<>>),
                 c, k.src)

decode_key_request(op, c, src) ==
    KeyRequestWith(op, c, or_else_result(c.key, substring_newlined(src), src))

\* incr, decr: key SP diff LF; self.diff is set just before the request
\* is returned
DiffRequestWithDiff(op, c, d) ==
    IF d.tag # "Some" THEN Incomplete(d, c)
    ELSE Decoded("Some", MemcachedRequest(op, c.key[1], <<>>, <<>>, <<>>, d.val),
                 [c EXCEPT !.diff = Some(d.val)], d.src)

DiffRequestWithKey(op, c, k) ==
    IF k.tag # "Some" THEN Incomplete(k, c)
    ELSE DiffRequestWithDiff(
             op, [c EXCEPT !.key = Some(k.val)],
             or_else_result(c.diff, map_to_i64(substring_newlined(k.src)), k.src))

decode_diff_request(op, c, src) ==
    DiffRequestWithKey(op, c, or_else_result(c.key, substring_spaced(src), src))

\* a data block taken together with the two bytes of its CR LF
AfterDataBlockAndTerminator(n, src) == SubSeq(src, ToNat(n) + 3, Len(src))

\* the bytes split_to(number_of_bytes) leaves in the buffer
AfterDataBlock(n, src) == SubSeq(src, ToNat(n) + 1, Len(src))

\* a data block read like a token: its trailing whitespace trimmed
DataBlockTrimmed(n, src) == trim_end(SubSeq(src, 1, ToNat(n)))

\* the bytes split_to(number_of_bytes) returns
DataBlock(n, src) == SubSeq(src, 1, ToNat(n))

\* the data block: number_of_bytes bytes taken by length, then from_utf8
decode_data_block(op, c, src) ==
    IF ~FitsBuffer(c.number_of_bytes[1], src) THEN Decoded("None", NoRequest, c, src)
    ELSE IF ~IsUtf8(DataBlock(c.number_of_bytes[1], src))
         THEN Decoded("Err", NoRequest, c, AfterDataBlock(c.number_of_bytes[1], src))
    ELSE Decoded("Some",
                 MemcachedRequest(op, c.key[1], c.flags[1], c.expire[1],
                                  DataBlock(c.number_of_bytes[1], src), <<>>),
                 c, AfterDataBlock(c.number_of_bytes[1], src))

\* set, add, replace, append, prepend:
\* key SP flags SP expire SP number_of_bytes LF data, slot by slot
WriteRequestWithBytes(op, c, n) ==
    IF n.tag # "Some" THEN Incomplete(n, c)
    ELSE decode_data_block(op, [c EXCEPT !.number_of_bytes = Some(n.val)], n.src)

WriteRequestWithExpire(op, c, e) ==
    IF e.tag # "Some" THEN Incomplete(e, c)
    ELSE WriteRequestWithBytes(
             op, [c EXCEPT !.expire = Some(e.val)],
             or_else_result(c.number_of_bytes,
                            map_to_u64(substring_newlined(e.src)), e.src))

WriteRequestWithFlags(op, c, f) ==
    IF f.tag # "Some" THEN Incomplete(f, c)
    ELSE WriteRequestWithExpire(
             op, [c EXCEPT !.flags = Some(f.val)],
             or_else_result(c.expire, map_to_u64(substring_spaced(f.src)), f.src))

WriteRequestWithKey(op, c, k) ==
    IF k.tag # "Some" THEN Incomplete(k, c)
    ELSE WriteRequestWithFlags(
             op, [c EXCEPT !.key = Some(k.val)],
             or_else_result(c.flags, map_to_u32(substring_spaced(k.src)), k.src))

decode_write_request(op, c, src) ==
    WriteRequestWithKey(op, c, or_else_result(c.key, substring_spaced(src), src))

WriteCommands == {CmdSet, CmdAdd, CmdReplace, CmdAppend, CmdPrepend}
KeyCommands == {CmdGet, CmdDelete}
DiffCommands == {CmdIncr, CmdDecr}

\* the variant decode_impl builds for a command name
Variant(name) ==
    CASE name = CmdSet -> "Set" [] name = CmdAdd -> "Add"
      [] name = CmdReplace -> "Replace" [] name = CmdAppend -> "Append"
      [] name = CmdPrepend -> "Prepend" [] name = CmdGet -> "Get"
      [] name = CmdDelete -> "Delete" [] name = CmdIncr -> "Incr"
      [] name = CmdDecr -> "Decr" [] name = CmdStats -> "Stats"
      [] name = CmdVersion -> "Version" [] OTHER -> "Unsupported"

\* matching on the stored command instead of cmd.trim()
MatchedCommandUntrimmed(cmd) == cmd

\* the string decode_impl matches on
MatchedCommand(cmd) == trim(cmd)

\* the match of decode_impl on the trimmed command, self.command set
DispatchCommand(name, c, src) ==
    IF name \in WriteCommands THEN decode_write_request(Variant(name), c, src)
    ELSE IF name \in KeyCommands THEN decode_key_request(Variant(name), c, src)
    ELSE IF name \in DiffCommands THEN decode_diff_request(Variant(name), c, src)
    ELSE Decoded("Some",
                 MemcachedRequest(Variant(name), <<>>, <<>>, <<>>, <<>>, <<>>),
                 c, src)

ImplWithCommand(c, t) ==
    IF t.tag # "Some" THEN Incomplete(t, c)
    ELSE DispatchCommand(MatchedCommand(t.val),
                         [c EXCEPT !.command = Some(t.val)], t.src)

decode_impl(c, src) ==
    ImplWithCommand(c, or_else_result(c.command, substring_spaced(src), src))

\* a reset that forgets the slots of the storage commands
ResetSlotsCommandKey(c) ==
    [c EXCEPT !.command = None, !.key = None, !.diff = None]

\* a reset that leaves the diff slot as it is
ResetSlotsKeepDiff(c) == [MemcachedCodec_default EXCEPT !.diff = c.diff]

\* what decode does to the slots when decode_impl returned Some
ResetSlots(c) == MemcachedCodec_default

\* a decode that resets the six slots on an error too
DecodeResetsOnError(r) ==
    IF r.tag \in {"Some", "Err"} THEN [r EXCEPT !.codec = ResetSlots(r.codec)] ELSE r

\* Decoder::decode: an error returns at once, a request resets the six slots
DecodeWith(r) ==
    IF r.tag = "Some" THEN [r EXCEPT !.codec = ResetSlots(r.codec)] ELSE r

decode(c, src) == DecodeWith(decode_impl(c, src))

(***************************************************************************)
(* Signed 64-bit arithmetic on canonical decimal strings, for the          *)
(* backend's increment and decrement.                                      *)
(***************************************************************************)
TWO_POW_64 == <<"1", "8", "4", "4", "6", "7", "4", "4", "0", "7", "3", "7", "0", "9", "5", "5", "1", "6", "1", "6">>

IsNegative(v) == v[1] = "-"
Magnitude(v) == IF IsNegative(v) THEN Tail(v) ELSE v

LastDigit(d) == IF d = <<>> THEN 0 ELSE DigitVal(d[Len(d)])
Front(d) == IF d = <<>> THEN <<>> ELSE SubSeq(d, 1, Len(d) - 1)

RECURSIVE AddMag(_, _, _)
AddMag(a, b, carry) ==
    IF a = <<>> /\ b = <<>> THEN (IF carry = 1 THEN <<"1">> ELSE <<>>)
    ELSE LET t == LastDigit(a) + LastDigit(b) + carry
         IN AddMag(Front(a), Front(b), t \div 10) \o <<Digits[(t % 10) + 1]>>

\* a - b for magnitudes with b <= a
RECURSIVE SubMag(_, _, _)
SubMag(a, b, borrow) ==
    IF a = <<>> THEN <<>>
    ELSE LET t == LastDigit(a) - LastDigit(b) - borrow
         IN SubMag(Front(a), Front(b), IF t < 0 THEN 1 ELSE 0)
            \o <<Digits[((t + 10) % 10) + 1]>>

\* the mathematical sum of two integers given as canonical strings
SignedAdd(x, y) ==
    LET a == Magnitude(x)
        b == Magnitude(y)
    IN IF IsNegative(x) = IsNegative(y)
       THEN Canonical(IsNegative(x), AddMag(a, b, 0))
       ELSE IF MagLess(a, b) THEN Canonical(IsNegative(y), SubMag(b, a, 0))
       ELSE Canonical(IsNegative(x), SubMag(a, b, 0))

Negate(x) == Canonical(~IsNegative(x), Magnitude(x))

InI64(v) ==
    IF IsNegative(v) THEN ~MagLess(I64_MIN_MAGNITUDE, Magnitude(v))
    ELSE ~MagLess(I64_MAX, Magnitude(v))

\* two's complement wrapping of a sum or difference of two i64 values
WrapI64(v) ==
    IF InI64(v) THEN v
    ELSE IF IsNegative(v) THEN SignedAdd(v, TWO_POW_64)
    ELSE SignedAdd(v, Negate(TWO_POW_64))

(***************************************************************************)
(* The backend, HashMapStorage.  hash_map is a function from the keys      *)
(* present to their McdValue.  Every operation runs under the lock from    *)
(* its first line to its return, so it is one step: given the map it       *)
(* yields the set of its possible outcomes [res, hash_map].  An outcome    *)
(* of kind "Panic" is an arithmetic overflow in a build that checks it.    *)
(***************************************************************************)
MemcachedResponse(kind, key, flags, expire, value) ==
    [kind |-> kind, key |-> key, flags |-> flags, expire |-> expire,
     value |-> value]

Plain(kind) == MemcachedResponse(kind, <<>>, <<>>, <<>>, <<>>)

\* MemcachedError::Client(message)
ClientError(message) == MemcachedResponse("Client", <<>>, <<>>, <<>>, message)

McdValue_new(value, flags, expire) ==
    [value |-> value, flags |-> flags, expire |-> expire]

Outcome(res, hm) == [res |-> res, hash_map |-> hm]

contains_key(hm, key) == key \in DOMAIN hm

\* HashMap::insert
insert(hm, key, v) == [k \in DOMAIN hm \cup {key} |-> IF k = key THEN v ELSE hm[k]]

\* HashMap::remove
remove(hm, key) == [k \in DOMAIN hm \ {key} |-> hm[k]]

storage_set(hm, key, value, flags, expire) ==
    {Outcome(Plain("Stored"), insert(hm, key, McdValue_new(value, flags, expire)))}

\* an add that installs over a present key
AddOverwrites(hm, key, value, flags, expire) ==
    {Outcome(Plain("Stored"), insert(hm, key, McdValue_new(value, flags, expire)))}

\* an add that finds no key present
AddCheckNever(hm, key) == FALSE

\* add: hm.contains_key(key)
add_check(hm, key) == contains_key(hm, key)

\* add: hm.insert(key, McdValue::new(value, options)) and Ok(Stored)
add_install(hm, key, value, flags, expire) ==
    Outcome(Plain("Stored"), insert(hm, key, McdValue_new(value, flags, expire)))

storage_add(hm, key, value, flags, expire) ==
    IF add_check(hm, key) THEN {Outcome(Plain("AlreadyExists"), hm)}
    ELSE {add_install(hm, key, value, flags, expire)}

\* a replace that installs an absent key
ReplaceInstalls(hm, key, value, flags, expire) ==
    {Outcome(Plain("Stored"), insert(hm, key, McdValue_new(value, flags, expire)))}

storage_replace(hm, key, value, flags, expire) ==
    IF ~contains_key(hm, key) THEN {Outcome(Plain("NotFound"), hm)}
    ELSE {Outcome(Plain("Stored"), insert(hm, key, McdValue_new(value, flags, expire)))}

\* an append that keeps the flags and expire of the entry
AppendKeepsOptions(hm, key, value, flags, expire) ==
    IF ~contains_key(hm, key) THEN {Outcome(Plain("NotFound"), hm)}
    ELSE {Outcome(Plain("Stored"),
                  insert(hm, key, McdValue_new(hm[key].value \o value, hm[key].flags,
                                               hm[key].expire)))}

storage_append(hm, key, value, flags, expire) ==
    IF ~contains_key(hm, key) THEN {Outcome(Plain("NotFound"), hm)}
    ELSE {Outcome(Plain("Stored"),
                  insert(hm, key, McdValue_new(hm[key].value \o value, flags, expire)))}

storage_prepend(hm, key, value, flags, expire) ==
    IF ~contains_key(hm, key) THEN {Outcome(Plain("NotFound"), hm)}
    ELSE {Outcome(Plain("Stored"),
                  insert(hm, key, McdValue_new(value \o hm[key].value, flags, expire)))}

storage_get(hm, key) ==
    IF contains_key(hm, key)
    THEN {Outcome(MemcachedResponse("Value", key, hm[key].flags, hm[key].expire,
                                    hm[key].value), hm)}
    ELSE {Outcome(Plain("NotFound"), hm)}

\* a delete that reports Deleted and keeps the entry
DeleteKeeps(hm, key) ==
    IF contains_key(hm, key) THEN {Outcome(Plain("Deleted"), hm)}
    ELSE {Outcome(Plain("NotFound"), hm)}

storage_delete(hm, key) ==
    IF contains_key(hm, key) THEN {Outcome(Plain("Deleted"), remove(hm, key))}
    ELSE {Outcome(Plain("NotFound"), hm)}

\* the second half of increment and decrement: old_value is the entry read
\* in the first half, sum the mathematical current + diff (or current - diff).
\* In range it is stored with the old options; out of range the build
\* either panics or wraps
arith_store(hm, key, old_value, sum) ==
    IF InI64(sum)
    THEN {Outcome(Plain("Stored"),
                  insert(hm, key, McdValue_new(sum, old_value.flags, old_value.expire)))}
    ELSE {Outcome(Plain("Panic"), hm),
          Outcome(Plain("Stored"),
                  insert(hm, key, McdValue_new(WrapI64(sum), old_value.flags,
                                               old_value.expire)))}

storage_arith(hm, key, sum) == arith_store(hm, key, hm[key], sum)

\* a first half that reads a value that is no integer as 0
ArithCurrentLenient(hm, key) ==
    IF ~contains_key(hm, key) THEN Parsed("NotFound", <<>>)
    ELSE IF i64_from_str(hm[key].value).kind # "Ok" THEN Parsed("Ok", <<"0">>)
    ELSE Parsed("Ok", i64_from_str(hm[key].value).val)

\* the first half of increment and decrement: hm.get(key), i64::from_str
arith_current(hm, key) ==
    IF ~contains_key(hm, key) THEN Parsed("NotFound", <<>>)
    ELSE IF i64_from_str(hm[key].value).kind # "Ok"
         THEN Parsed("FailedToParseInteger", <<>>)
    ELSE Parsed("Ok", i64_from_str(hm[key].value).val)

storage_increment(hm, key, diff) ==
    IF arith_current(hm, key).kind # "Ok"
    THEN {Outcome(Plain(arith_current(hm, key).kind), hm)}
    ELSE storage_arith(hm, key, SignedAdd(arith_current(hm, key).val, diff))

storage_decrement(hm, key, diff) ==
    IF arith_current(hm, key).kind # "Ok"
    THEN {Outcome(Plain(arith_current(hm, key).kind), hm)}
    ELSE storage_arith(hm, key, SignedAdd(arith_current(hm, key).val, Negate(diff)))

storage_statistics(hm) == {Outcome(Plain("Statistics"), hm)}

(***************************************************************************)
(* The encoder: the bytes of one reply.                                    *)
(***************************************************************************)
TxtStored == <<"S", "T", "O", "R", "E", "D", CR, LF>>
TxtDeleted == <<"D", "E", "L", "E", "T", "E", "D", CR, LF>>
TxtEnd == <<"E", "N", "D", CR, LF>>
TxtValue == <<"V", "A", "L", "U", "E", SP>>
TxtVersion == <<"V", "E", "R", "S", "I", "O", "N", SP>>
TxtError == <<"E", "R", "R", "O", "R", CR, LF>>
TxtClientError == <<"C", "L", "I", "E", "N", "T", "_", "E", "R", "R", "O", "R", SP>>
TxtNotFound == <<"C", "L", "I", "E", "N", "T", "_", "E", "R", "R", "O", "R", SP, "N", "o", "t", SP, "f", "o", "u", "n", "d", CR, LF>>
TxtAlreadyExists == <<"C", "L", "I", "E", "N", "T", "_", "E", "R", "R", "O", "R", SP, "A", "l", "r", "e", "a", "d", "y", SP, "e", "x", "i", "s", "t", "s", CR, LF>>
TxtFailedToParse == <<"C", "L", "I", "E", "N", "T", "_", "E", "R", "R", "O", "R", SP, "F", "a", "i", "l", "e", "d", SP, "t", "o", SP, "p", "a", "r", "s", "e", SP, "i", "n", "t", "e", "g", "e", "r", CR, LF>>
TxtInvalidData == <<"I", "n", "v", "a", "l", "i", "d", SP, "d", "a", "t", "a">>
VERSION_STRING == <<"0", ".", "1", ".", "0">>

encode_data(item) ==
    CASE item.kind = "Stored" -> TxtStored
      [] item.kind = "Deleted" -> TxtDeleted
      [] item.kind = "NoValue" -> TxtEnd
      [] item.kind = "Value" ->
            TxtValue \o item.key \o <<SP>> \o item.flags \o <<SP>> \o item.expire
            \o <<CR, LF>> \o item.value \o <<CR, LF>> \o TxtEnd
      [] item.kind = "Statistics" -> <<>>
      [] item.kind = "Version" -> TxtVersion \o item.value \o <<CR, LF>>
      [] item.kind = "NoExistenceCommand" -> TxtError
      [] item.kind = "Client" -> TxtClientError \o item.value \o <<CR, LF>>
      [] item.kind = "NotFound" -> TxtNotFound
      [] item.kind = "AlreadyExists" -> TxtAlreadyExists
      [] item.kind = "FailedToParseInteger" -> TxtFailedToParse

(***************************************************************************)
(* The client.  A connection carries up to MaxRequests requests, each one   *)
(* of the byte strings below, sent back to back and cut into reads of any   *)
(* size.                                                                   *)
(***************************************************************************)
ReqSet == <<"s", "e", "t", SP, "k", SP, "1", SP, "2", SP, "1", CR, LF, "5", CR, LF>>
ReqGet == <<"g", "e", "t", SP, "k", CR, LF>>
ReqIncr == <<"i", "n", "c", "r", SP, "k", SP, "3", CR, LF>>
ReqDelete == <<"d", "e", "l", "e", "t", "e", SP, "k", LF>>
ReqStats == <<"s", "t", "a", "t", "s", CR, LF>>
ReqVersion == <<"v", "e", "r", "s", "i", "o", "n", LF>>
ReqUnknown == <<"f", "r", "o", "b", "n", "i", "c", "a", "t", "e", CR, LF>>
\* not of the grammar: a command name followed by a space
ReqStatsSp == <<"s", "t", "a", "t", "s", SP, CR, LF>>
ReqVersionSp == <<"v", "e", "r", "s", "i", "o", "n", SP, CR, LF>>
\* flags with a character that is no digit
ReqBadFlags == <<"s", "e", "t", SP, "k", SP, "x", SP, "0", SP, "1", CR, LF, "a", CR, LF>>
\* a key that is not valid UTF-8
ReqBadUtf8 == <<"g", "e", "t", SP, XFF, CR, LF>>
\* a data block of a line feed and a space
ReqOpaque == <<"s", "e", "t", SP, "k", SP, "0", SP, "0", SP, "2", LF, LF, SP, LF>>
\* an unknown command with an argument
ReqUnknownArg == <<"x", SP, "k", LF>>

GrammarRequests ==
    {ReqSet, ReqGet, ReqIncr, ReqDelete, ReqStats, ReqVersion, ReqUnknown}

Requests ==
    GrammarRequests
    \cup {ReqStatsSp, ReqVersionSp, ReqBadFlags, ReqBadUtf8, ReqOpaque, ReqUnknownArg}

\* the most requests a client sends on the connection
MaxRequests == 2

RECURSIVE Sequences(_)
Sequences(n) ==
    IF n = 0 THEN {<<>>}
    ELSE {<<r>> \o t : r \in Requests, t \in Sequences(n - 1)}

Inputs == UNION {Sequences(n) : n \in 1..MaxRequests}

RECURSIVE Concat(_)
Concat(ss) == IF ss = <<>> THEN <<>> ELSE Head(ss) \o Concat(Tail(ss))

(***************************************************************************)
(* One connection: handle_socket_impl over Framed<TcpStream, Codec>.       *)
(*   input        the requests the client sends (never changes)            *)
(*   wire         the bytes not yet read from the socket                   *)
(*   src          Framed's read buffer                                     *)
(*   codec        the MemcachedCodec                                       *)
(*   is_readable  Framed: the buffer holds bytes decode has not yet seen   *)
(*   has_errored  Framed: decode returned an error                         *)
(*   pc           where the handler is: "next" in framed.next(), "call"    *)
(*                awaiting the backend, "send" in framed.send(), "closed"  *)
(*   request      the request being served                                 *)
(*   response     the reply to send                                        *)
(*   hash_map     the backend's map                                        *)
(*   out          the replies written to the socket, in order              *)
(*   emitted      history: the items framed.next() has yielded             *)
(*   last         history: the most recent decode call, as the codec and   *)
(*                buffer it was given and what it returned                 *)
(***************************************************************************)
VARIABLES input, wire, src, codec, is_readable, has_errored, pc, request,
          response, hash_map, out, emitted, last

(***************************************************************************)
(* The backend under concurrent callers (see StorageSpec below):           *)
(*   lock      the RwLock: the tasks holding it for writing, for reading   *)
(*   task      per task: where it is in its call, the call, the entry an   *)
(*             increment or decrement has read, the calls it has finished  *)
(*   returned  history: the call that returned last, with the map before   *)
(*             and after its last step, and the call that returned before  *)
(*             it with its result                                          *)
(*   ledger    history: the value the key held at the start, the sum of    *)
(*             the diffs applied by increment and decrement, whether       *)
(*             nothing else has changed the map, the add calls that        *)
(*             returned Stored, the number that returned AlreadyExists,    *)
(*             and whether every call so far was an add or a get           *)
(***************************************************************************)
VARIABLES lock, task, returned, ledger

storage_vars == <<lock, task, returned, ledger>>

(***************************************************************************)
(* Several connections (see ServerSpec below):                             *)
(*   conns   per connection: wire, src, is_readable, has_errored, pc,      *)
(*           request, response, out, emitted, as above                     *)
(*   codecs  the MemcachedCodec of each Framed                             *)
(***************************************************************************)
VARIABLES conns, codecs

server_vars == <<conns, codecs>>

connection_vars == <<input, wire, src, codec, is_readable, has_errored, pc,
                     request, response, out, emitted, last>>

vars == <<connection_vars, hash_map, storage_vars, server_vars>>

EmptyMap == [k \in {} |-> <<>>]

NoCall == [codec |-> MemcachedCodec_default, src |-> <<>>,
           r |-> Decoded("", NoRequest, MemcachedCodec_default, <<>>)]

\* no task calls the backend but the connection's own
NoTasks ==
    /\ lock = [writers |-> {}, readers |-> {}]
    /\ task = <<>>
    /\ returned = <<>>
    /\ ledger = <<>>

\* no further connection is open
NoConnections ==
    /\ conns = <<>>
    /\ codecs = <<>>

Init ==
    /\ input \in Inputs
    /\ wire = Concat(input)
    /\ src = <<>>
    /\ codec = MemcachedCodec_default
    /\ is_readable = FALSE
    /\ has_errored = FALSE
    /\ pc = "next"
    /\ request = NoRequest
    /\ response = Plain("")
    /\ hash_map = EmptyMap
    /\ out = <<>>
    /\ emitted = <<>>
    /\ last = NoCall
    /\ NoTasks
    /\ NoConnections

\* a handler that polls the stream while a reply is still to be sent
AwaitingNextOrSending == pc \in {"next", "send"}

\* the handler is inside framed.next().await
AwaitingNext == pc = "next"

\* Framed reads from the socket when the buffer has nothing new to decode
Read ==
    /\ AwaitingNext
    /\ ~is_readable
    /\ ~has_errored
    /\ \E n \in 1..Len(wire) :
          /\ src' = src \o SubSeq(wire, 1, n)
          /\ wire' = SubSeq(wire, n + 1, Len(wire))
    /\ is_readable' = TRUE
    /\ UNCHANGED <<input, codec, has_errored, pc, request, response, hash_map,
                   out, emitted, last>>
    /\ UNCHANGED <<storage_vars, server_vars>>

\* a handler that answers every request it answers itself with ERROR
OwnReplyAlwaysError(req) == Plain("NoExistenceCommand")

\* the reply of the handler's match for the requests it answers itself
OwnReply(req) ==
    IF req.op = "Version"
    THEN MemcachedResponse("Version", <<>>, <<>>, <<>>, VERSION_STRING)
    ELSE Plain("NoExistenceCommand")

\* framed.next() after a decode call that returned r.  None sends Framed
\* back to reading; an error is yielded and answered with
\* Client("Invalid data"); a request is dispatched (Version and Unsupported
\* without the backend)
Yield(r) ==
    /\ codec' = r.codec
    /\ src' = r.src
    /\ last' = [codec |-> codec, src |-> src, r |-> r]
    /\ is_readable' = (r.tag # "None")
    /\ has_errored' = (r.tag = "Err")
    /\ emitted' = IF r.tag = "None" THEN emitted
                  ELSE Append(emitted, [tag |-> r.tag, req |-> r.req])
    /\ CASE r.tag = "None" ->
              /\ pc' = "next"
              /\ UNCHANGED <<request, response>>
         [] r.tag = "Err" ->
              /\ pc' = "send"
              /\ response' = ClientError(TxtInvalidData)
              /\ UNCHANGED request
         [] r.tag = "Some" /\ r.req.op \in {"Version", "Unsupported"} ->
              /\ pc' = "send"
              /\ request' = r.req
              /\ response' = OwnReply(r.req)
         [] OTHER ->
              /\ pc' = "call"
              /\ request' = r.req
              /\ UNCHANGED response

\* framed.next(): one decode call on the buffer
Decode ==
    /\ AwaitingNext
    /\ is_readable
    /\ ~has_errored
    /\ Yield(decode(codec, src))
    /\ UNCHANGED <<input, wire, hash_map, out>>
    /\ UNCHANGED <<storage_vars, server_vars>>

\* the backend operation the handler's match awaits for a request
Dispatch(req, hm) ==
    CASE req.op = "Set" -> storage_set(hm, req.key, req.value, req.flags, req.expire)
      [] req.op = "Add" -> storage_add(hm, req.key, req.value, req.flags, req.expire)
      [] req.op = "Replace" ->
            storage_replace(hm, req.key, req.value, req.flags, req.expire)
      [] req.op = "Append" ->
            storage_append(hm, req.key, req.value, req.flags, req.expire)
      [] req.op = "Prepend" ->
            storage_prepend(hm, req.key, req.value, req.flags, req.expire)
      [] req.op = "Get" -> storage_get(hm, req.key)
      [] req.op = "Delete" -> storage_delete(hm, req.key)
      [] req.op = "Incr" -> storage_increment(hm, req.key, req.diff)
      [] req.op = "Decr" -> storage_decrement(hm, req.key, req.diff)
      [] req.op = "Stats" -> storage_statistics(hm)

\* the awaited backend operation completes; a panic ends the task
Backend ==
    /\ pc = "call"
    /\ \E o \in Dispatch(request, hash_map) :
          /\ hash_map' = o.hash_map
          /\ IF o.res.kind = "Panic"
             THEN pc' = "closed" /\ UNCHANGED response
             ELSE pc' = "send" /\ response' = o.res
    /\ UNCHANGED <<input, wire, src, codec, is_readable, has_errored, request,
                   out, emitted, last>>
    /\ UNCHANGED <<storage_vars, server_vars>>

\* framed.send(res).await succeeds: the encoded reply is on the socket
Send ==
    /\ pc = "send"
    /\ out' = Append(out, encode_data(response))
    /\ pc' = "next"
    /\ UNCHANGED <<input, wire, src, codec, is_readable, has_errored, request,
                   response, hash_map, emitted, last>>
    /\ UNCHANGED <<storage_vars, server_vars>>

\* framed.send(res).await? fails: the error leaves handle_socket_impl
SendFails ==
    /\ pc = "send"
    /\ pc' = "closed"
    /\ UNCHANGED <<input, wire, src, codec, is_readable, has_errored, request,
                   response, hash_map, out, emitted, last>>
    /\ UNCHANGED <<storage_vars, server_vars>>

\* after a decode error Framed ends the stream: framed.next() yields None
\* and the while-let loop is left
StreamEnds ==
    /\ AwaitingNext
    /\ has_errored
    /\ pc' = "closed"
    /\ UNCHANGED <<input, wire, src, codec, is_readable, has_errored, request,
                   response, hash_map, out, emitted, last>>
    /\ UNCHANGED <<storage_vars, server_vars>>

Next == Read \/ Decode \/ Backend \/ Send \/ SendFails \/ StreamEnds

Spec == Init /\ [][Next]_vars

(***************************************************************************)
(* The backend under concurrent callers.  start_server hands every         *)
(* connection task a clone of the one Arc<dyn MemcachedHandler>; here the  *)
(* tasks call HashMapStorage directly, as handle_socket_impl does once a   *)
(* request is decoded.  A call first acquires the RwLock (get for          *)
(* reading, every other operation for writing), runs its body and          *)
(* releases the lock when it returns.  The body of increment and           *)
(* decrement is two steps, the read of the entry and the write of the      *)
(* sum, so that what keeps them together is the lock and nothing else.     *)
(***************************************************************************)
K == <<"k">>

\* the connection tasks that share the backend
Tasks == {"t1", "t2"}

\* the most calls one task makes
MaxCalls == 2

\* the calls a task chooses from (key, flags, expire, value, diff)
StorageCalls ==
    {MemcachedRequest("Set", K, <<"7">>, <<"9">>, <<"8">>, <<>>),
     MemcachedRequest("Add", K, <<"7">>, <<"9">>, <<"8">>, <<>>),
     MemcachedRequest("Add", K, <<"3">>, <<"4">>, <<"6">>, <<>>),
     MemcachedRequest("Replace", K, <<"7">>, <<"9">>, <<"8">>, <<>>),
     MemcachedRequest("Append", K, <<"7">>, <<"9">>, <<"b">>, <<>>),
     MemcachedRequest("Prepend", K, <<"7">>, <<"9">>, <<"b">>, <<>>),
     MemcachedRequest("Get", K, <<>>, <<>>, <<>>, <<>>),
     MemcachedRequest("Delete", K, <<>>, <<>>, <<>>, <<>>),
     MemcachedRequest("Incr", K, <<>>, <<>>, <<>>, <<"3">>),
     MemcachedRequest("Decr", K, <<>>, <<>>, <<>>, <<"4">>)}

ArithOps == {"Incr", "Decr"}

\* the maps the calls start from: what earlier set calls have left
InitialMaps ==
    {EmptyMap}
    \cup {insert(EmptyMap, K, McdValue_new(v, <<"1">>, <<"2">>)) :
             v \in {<<"5">>, <<"a">>, I64_MAX}}

IdleTask ==
    [pc |-> "idle", call |-> NoRequest, old_value |-> None, current |-> <<>>,
     calls |-> 0]

NoReturn ==
    [task |-> "", call |-> NoRequest, pre |-> EmptyMap, post |-> EmptyMap,
     res |-> Plain(""), prior |-> [call |-> NoRequest, res |-> Plain("")]]

\* the connection of Spec is not open
ConnectionUnused ==
    /\ input = <<>>
    /\ wire = <<>>
    /\ src = <<>>
    /\ codec = MemcachedCodec_default
    /\ is_readable = FALSE
    /\ has_errored = FALSE
    /\ pc = "closed"
    /\ request = NoRequest
    /\ response = Plain("")
    /\ out = <<>>
    /\ emitted = <<>>
    /\ last = NoCall

StorageInit ==
    /\ ConnectionUnused
    /\ NoConnections
    /\ hash_map \in InitialMaps
    /\ lock = [writers |-> {}, readers |-> {}]
    /\ task = [t \in Tasks |-> IdleTask]
    /\ returned = NoReturn
    /\ ledger = [v0 |-> IF contains_key(hash_map, K) THEN Some(hash_map[K].value)
                        ELSE None,
                 diffs |-> <<"0">>, clean |-> TRUE, stored |-> <<>>, refused |-> 0,
                 adds_only |-> TRUE]

\* a write lock that is granted at once
CanWriteAlways(lk) == TRUE

\* RwLock::write() is granted when nobody holds the lock
CanWrite(lk) == lk.writers = {} /\ lk.readers = {}

\* RwLock::read() is granted when nobody holds it for writing
CanRead(lk) == lk.writers = {}

\* the guard is dropped
Release(lk, t) == [writers |-> lk.writers \ {t}, readers |-> lk.readers \ {t}]

\* self.hash_map.write().await (get: read().await) of the task's next call
Acquire(t) ==
    /\ task[t].pc = "idle"
    /\ task[t].calls < MaxCalls
    /\ \E call \in StorageCalls :
          /\ IF call.op = "Get"
             THEN CanRead(lock) /\ lock' = [lock EXCEPT !.readers = @ \cup {t}]
             ELSE CanWrite(lock) /\ lock' = [lock EXCEPT !.writers = @ \cup {t}]
          /\ task' = [task EXCEPT ![t].pc = "locked", ![t].call = call]
          /\ ledger' = [ledger EXCEPT !.adds_only = @ /\ call.op \in {"Add", "Get"}]
    /\ UNCHANGED <<connection_vars, hash_map, returned, server_vars>>

\* the call of task t returns res and leaves the map post; a panic ends
\* the task, and its unwinding drops the guard
Return(t, res, post) ==
    /\ returned' = [task |-> t, call |-> task[t].call, pre |-> hash_map,
                    post |-> post, res |-> res,
                    prior |-> [call |-> returned.call, res |-> returned.res]]
    /\ hash_map' = post
    /\ lock' = Release(lock, t)
    /\ task' = [task EXCEPT ![t] =
                    [IdleTask EXCEPT !.calls = task[t].calls + 1,
                                     !.pc = IF res.kind = "Panic" THEN "panicked"
                                            ELSE "idle"]]

\* add: the key is looked up; a present key ends the call
Check(t) ==
    /\ task[t].pc = "locked"
    /\ task[t].call.op = "Add"
    /\ IF add_check(hash_map, task[t].call.key)
       THEN /\ Return(t, Plain("AlreadyExists"), hash_map)
            /\ ledger' = [ledger EXCEPT !.refused = @ + 1]
       ELSE /\ task' = [task EXCEPT ![t].pc = "checked"]
            /\ UNCHANGED <<hash_map, lock, returned, ledger>>
    /\ UNCHANGED <<connection_vars, server_vars>>

\* add: the entry is inserted
Install(t) ==
    /\ task[t].pc = "checked"
    /\ Return(t,
              add_install(hash_map, task[t].call.key, task[t].call.value,
                          task[t].call.flags, task[t].call.expire).res,
              add_install(hash_map, task[t].call.key, task[t].call.value,
                          task[t].call.flags, task[t].call.expire).hash_map)
    /\ ledger' = [ledger EXCEPT !.stored = Append(@, task[t].call), !.clean = FALSE]
    /\ UNCHANGED <<connection_vars, server_vars>>

\* the body of set, replace, append, prepend, get or delete
Apply(t) ==
    /\ task[t].pc = "locked"
    /\ task[t].call.op \notin ArithOps \cup {"Add"}
    /\ \E o \in Dispatch(task[t].call, hash_map) :
          /\ Return(t, o.res, o.hash_map)
          /\ ledger' = [ledger EXCEPT !.clean = @ /\ o.hash_map = hash_map]
    /\ UNCHANGED <<connection_vars, server_vars>>

\* increment, decrement: hm.get(key) and i64::from_str(old_value.value)
Load(t) ==
    /\ task[t].pc = "locked"
    /\ task[t].call.op \in ArithOps
    /\ IF arith_current(hash_map, task[t].call.key).kind = "Ok"
       THEN /\ task' = [task EXCEPT
                           ![t].pc = "loaded",
                           ![t].old_value = Some(hash_map[task[t].call.key]),
                           ![t].current = arith_current(hash_map, task[t].call.key).val]
            /\ UNCHANGED <<hash_map, lock, returned>>
       ELSE Return(t, Plain(arith_current(hash_map, task[t].call.key).kind), hash_map)
    /\ UNCHANGED <<connection_vars, ledger, server_vars>>

\* the diff of a call with the sign the operation gives it
SignedDiff(call) == IF call.op = "Incr" THEN call.diff ELSE Negate(call.diff)

\* increment, decrement: current + diff (current - diff), McdValue::new with
\* the old options, hm.insert
Store(t) ==
    /\ task[t].pc = "loaded"
    /\ \E o \in arith_store(hash_map, task[t].call.key, task[t].old_value[1],
                             SignedAdd(task[t].current, SignedDiff(task[t].call))) :
          Return(t, o.res, o.hash_map)
    /\ ledger' = [ledger EXCEPT !.diffs = SignedAdd(@, SignedDiff(task[t].call))]
    /\ UNCHANGED <<connection_vars, server_vars>>

StorageNext ==
    \E t \in Tasks :
        Acquire(t) \/ Apply(t) \/ Check(t) \/ Install(t) \/ Load(t) \/ Store(t)

StorageSpec == StorageInit /\ [][StorageNext]_vars

(***************************************************************************)
(* Several connections.  start_server spawns handle_socket for every       *)
(* accepted socket; each handle_socket_impl builds its own Framed with its *)
(* own MemcachedCodec, and all of them call the one backend.  Every        *)
(* connection runs the steps of Spec on its own record.                    *)
(***************************************************************************)
\* the most connections open at once
MaxConnections == 2

Connections == 1..MaxConnections

\* what a connection sends: one request, cut into reads of any size
ConnRequests == {ReqGet, ReqIncr, ReqBadUtf8}

\* handle_socket_impl before its loop
NewConnection(bytes) ==
    [wire |-> bytes, src |-> <<>>, is_readable |-> FALSE, has_errored |-> FALSE,
     pc |-> "next", request |-> NoRequest, response |-> Plain(""), out |-> <<>>,
     emitted |-> <<>>]

ServerInit ==
    /\ ConnectionUnused
    /\ NoTasks
    /\ hash_map = insert(EmptyMap, K, McdValue_new(<<"5">>, <<"1">>, <<"2">>))
    /\ conns \in [Connections -> {NewConnection(r) : r \in ConnRequests}]
    /\ codecs = [c \in Connections |-> MemcachedCodec_default]

\* one codec used by the Framed of every connection
SharedCodec(c) == 1

\* the codec the Framed of connection c decodes with: the one built for it
CodecOwner(c) == c

ConnRead(c) ==
    /\ conns[c].pc = "next"
    /\ ~conns[c].is_readable
    /\ ~conns[c].has_errored
    /\ \E n \in 1..Len(conns[c].wire) :
          conns' = [conns EXCEPT
                       ![c].src = @ \o SubSeq(conns[c].wire, 1, n),
                       ![c].wire = SubSeq(@, n + 1, Len(@)),
                       ![c].is_readable = TRUE]
    /\ UNCHANGED <<connection_vars, hash_map, storage_vars, codecs>>

\* the connection after framed.next() ran a decode call that returned r
AfterYield(cn, r) ==
    [cn EXCEPT
        !.src = r.src,
        !.is_readable = (r.tag # "None"),
        !.has_errored = (r.tag = "Err"),
        !.emitted = IF r.tag = "None" THEN @ ELSE Append(@, [tag |-> r.tag, req |-> r.req]),
        !.pc = CASE r.tag = "None" -> "next"
                 [] r.tag = "Err" -> "send"
                 [] r.tag = "Some" /\ r.req.op \in {"Version", "Unsupported"} -> "send"
                 [] OTHER -> "call",
        !.request = IF r.tag = "Some" THEN r.req ELSE @,
        !.response = CASE r.tag = "Err" -> ClientError(TxtInvalidData)
                       [] r.tag = "Some" /\ r.req.op \in {"Version", "Unsupported"} ->
                            OwnReply(r.req)
                       [] OTHER -> @]

ConnYield(c, r) ==
    /\ codecs' = [codecs EXCEPT ![CodecOwner(c)] = r.codec]
    /\ conns' = [conns EXCEPT ![c] = AfterYield(conns[c], r)]

ConnDecode(c) ==
    /\ conns[c].pc = "next"
    /\ conns[c].is_readable
    /\ ~conns[c].has_errored
    /\ ConnYield(c, decode(codecs[CodecOwner(c)], conns[c].src))
    /\ UNCHANGED <<connection_vars, hash_map, storage_vars>>

ConnBackend(c) ==
    /\ conns[c].pc = "call"
    /\ \E o \in Dispatch(conns[c].request, hash_map) :
          /\ hash_map' = o.hash_map
          /\ conns' = IF o.res.kind = "Panic"
                      THEN [conns EXCEPT ![c].pc = "closed"]
                      ELSE [conns EXCEPT ![c].pc = "send", ![c].response = o.res]
    /\ UNCHANGED <<connection_vars, storage_vars, codecs>>

ConnSend(c) ==
    /\ conns[c].pc = "send"
    /\ conns' = [conns EXCEPT ![c].out = Append(@, encode_data(conns[c].response)),
                              ![c].pc = "next"]
    /\ UNCHANGED <<connection_vars, hash_map, storage_vars, codecs>>

ConnSendFails(c) ==
    /\ conns[c].pc = "send"
    /\ conns' = [conns EXCEPT ![c].pc = "closed"]
    /\ UNCHANGED <<connection_vars, hash_map, storage_vars, codecs>>

ConnStreamEnds(c) ==
    /\ conns[c].pc = "next"
    /\ conns[c].has_errored
    /\ conns' = [conns EXCEPT ![c].pc = "closed"]
    /\ UNCHANGED <<connection_vars, hash_map, storage_vars, codecs>>

ServerNext ==
    \E c \in Connections :
        \/ ConnRead(c)
        \/ ConnDecode(c)
        \/ ConnBackend(c)
        \/ ConnSend(c)
        \/ ConnSendFails(c)
        \/ ConnStreamEnds(c)

ServerSpec == ServerInit /\ [][ServerNext]_vars

(***************************************************************************)
(* The codec on its own: Decoder::decode called again and again on a       *)
(* buffer its caller appends to, also after it has returned an error (a    *)
(* Framed that is polled again after the end of stream an error produces   *)
(* reads and decodes again).  input, wire, src, codec, emitted and last    *)
(* are as above, each result but None is recorded in emitted; there is no  *)
(* handler and no backend.                                                 *)
(***************************************************************************)
TwoPow32 == <<"4", "2", "9", "4", "9", "6", "7", "2", "9", "6">>
TwoPow64 == <<"1", "8", "4", "4", "6", "7", "4", "4", "0", "7", "3", "7", "0", "9", "5", "5", "1", "6", "1", "6">>
TwoPow63 == I64_MIN_MAGNITUDE
BelowI64 == <<"-", "9", "2", "2", "3", "3", "7", "2", "0", "3", "6", "8", "5", "4", "7", "7", "5", "8", "0", "9">>

SetK == <<"s", "e", "t", SP, "k", SP>>
IncrK == <<"i", "n", "c", "r", SP, "k", SP>>
DecrK == <<"d", "e", "c", "r", SP, "k", SP>>

\* a data block that is not UTF-8, followed by one that is
BytesBadBlock == SetK \o <<"0", SP, "0", SP, "1", CR, LF, XFF, "a">>
\* a key that is not UTF-8, followed by a key and the rest of the request
BytesBadKey == <<"s", "e", "t", SP, XFF, SP, "k", SP, "0", SP, "0", SP, "1", LF, "a">>
\* a command token that is not UTF-8, followed by a request
BytesBadCommand == <<XFF, SP>> \o ReqGet
\* flags, expire, number_of_bytes and diff one above their type's range
\* (diff also one below), each followed by tokens that are in range
BytesBigFlags == SetK \o TwoPow32 \o <<SP, "7", SP, "8", SP, "1", LF, "a">>
BytesBigExpire == SetK \o <<"0", SP>> \o TwoPow64 \o <<SP, "9", SP, "1", LF, "a">>
BytesBigLength == SetK \o <<"0", SP, "0", SP>> \o TwoPow64 \o <<CR, LF, "1", LF, "a">>
BytesBigDiff == IncrK \o TwoPow63 \o <<CR, LF, "2", LF>>
BytesSmallDiff == DecrK \o BelowI64 \o <<LF, "2", LF>>
\* the largest values of the types
BytesMaxima == SetK \o U32_MAX \o <<SP>> \o U64_MAX \o <<SP, "1", LF, "a">>
BytesMaxDiff == IncrK \o I64_MAX \o <<LF>>
BytesMinDiff == DecrK \o <<"-">> \o I64_MIN_MAGNITUDE \o <<LF>>
\* empty flags, expire, number_of_bytes and diff tokens
BytesNoFlags == SetK \o <<SP, "0", SP, "0", SP, "1", LF, "a">>
BytesNoExpire == SetK \o <<"0", SP, SP, "0", SP, "1", LF, "a">>
BytesNoLength == SetK \o <<"0", SP, "0", SP, CR, LF, "1", LF, "a">>
BytesNoDiff == IncrK \o <<CR, LF, "2", LF>>

OutOfRangeBytes ==
    {BytesBigFlags, BytesBigExpire, BytesBigLength, BytesBigDiff, BytesSmallDiff}

EmptyTokenBytes == {BytesNoFlags, BytesNoExpire, BytesNoLength, BytesNoDiff}

CodecInputs ==
    OutOfRangeBytes \cup EmptyTokenBytes
    \cup {BytesBadBlock, BytesBadKey, BytesBadCommand, BytesMaxima, BytesMaxDiff,
          BytesMinDiff, ReqSet, ReqGet, ReqIncr}

\* no handler runs
NoHandler ==
    /\ is_readable = FALSE
    /\ has_errored = FALSE
    /\ pc = "closed"
    /\ request = NoRequest
    /\ response = Plain("")
    /\ hash_map = EmptyMap
    /\ out = <<>>

handler_vars == <<is_readable, has_errored, pc, request, response, hash_map, out>>

CodecInit ==
    /\ \E bytes \in CodecInputs : input = <<bytes>>
    /\ wire = Concat(input)
    /\ src = <<>>
    /\ codec = MemcachedCodec_default
    /\ emitted = <<>>
    /\ last = NoCall
    /\ NoHandler
    /\ NoTasks
    /\ NoConnections

\* the caller appends bytes to the buffer
Feed ==
    /\ \E n \in 1..Len(wire) :
          /\ src' = src \o SubSeq(wire, 1, n)
          /\ wire' = SubSeq(wire, n + 1, Len(wire))
    /\ UNCHANGED <<input, codec, emitted, last>>
    /\ UNCHANGED <<handler_vars, storage_vars, server_vars>>

\* codec.decode(&mut src) returned r
Returned(r) ==
    /\ codec' = r.codec
    /\ src' = r.src
    /\ last' = [codec |-> codec, src |-> src, r |-> r]
    /\ emitted' = IF r.tag = "None" THEN emitted
                  ELSE Append(emitted, [tag |-> r.tag, req |-> r.req])

Call ==
    /\ Returned(decode(codec, src))
    /\ UNCHANGED <<input, wire>>
    /\ UNCHANGED <<handler_vars, storage_vars, server_vars>>

CodecNext == Feed \/ Call

CodecSpec == CodecInit /\ [][CodecNext]_vars

(***************************************************************************)
(* Properties.  Shared vocabulary first.                                   *)
(***************************************************************************)
\* the bytes the most recent decode call removed from the buffer
Consumed == Len(last.src) - Len(last.r.src)

\* the bytes read from the socket so far
Delivered == SubSeq(Concat(input), 1, Len(Concat(input)) - Len(wire))

\* decode has returned None or an error on everything read so far
Quiescent == ~is_readable \/ has_errored

Item(tag, req) == [tag |-> tag, req |-> req]

\* decode called again and again on a buffer that holds all the bytes,
\* until it returns None or an error
RECURSIVE OneShot(_, _, _)
OneShot(c, bytes, acc) ==
    LET r == decode(c, bytes)
    IN IF r.tag = "Some" THEN OneShot(r.codec, r.src, Append(acc, Item("Some", r.req)))
       ELSE [emitted |-> IF r.tag = "Err" THEN Append(acc, Item("Err", r.req)) ELSE acc,
             codec |-> r.codec, src |-> r.src]

\* C1: fragmentation invariance: the bytes read so far, however they were
\* cut into reads, have produced the same requests, slots and remaining
\* buffer as decoding them in one piece.
C1_FragmentationInvariance ==
    Quiescent =>
        LET o == OneShot(MemcachedCodec_default, Delivered, <<>>)
        IN emitted = o.emitted /\ codec = o.codec /\ src = o.src

\* the request the wire grammar assigns to a request of GrammarRequests
Expected(r) ==
    CASE r = ReqSet -> MemcachedRequest("Set", <<"k">>, <<"1">>, <<"2">>, <<"5">>, <<>>)
      [] r = ReqGet -> MemcachedRequest("Get", <<"k">>, <<>>, <<>>, <<>>, <<>>)
      [] r = ReqIncr -> MemcachedRequest("Incr", <<"k">>, <<>>, <<>>, <<>>, <<"3">>)
      [] r = ReqDelete -> MemcachedRequest("Delete", <<"k">>, <<>>, <<>>, <<>>, <<>>)
      [] r = ReqStats -> MemcachedRequest("Stats", <<>>, <<>>, <<>>, <<>>, <<>>)
      [] r = ReqVersion -> MemcachedRequest("Version", <<>>, <<>>, <<>>, <<>>, <<>>)
      [] r = ReqUnknown -> MemcachedRequest("Unsupported", <<>>, <<>>, <<>>, <<>>, <<>>)

\* C2: concatenation: two requests of the grammar sent back to back are
\* emitted as Request(R1) then Request(R2), the slots empty after each.
C2_Concatenation ==
    (/\ Len(input) = 2
     /\ input[1] \in GrammarRequests
     /\ input[2] \in GrammarRequests
     /\ wire = <<>>
     /\ Quiescent)
    => /\ emitted = <<Item("Some", Expected(input[1])), Item("Some", Expected(input[2]))>>
       /\ codec = MemcachedCodec_default

\* the first line of a buffer that holds an LF, without the LF
FirstLine(bytes) == SubSeq(bytes, 1, position_newline(bytes) - 1)

\* the first token of a line: up to its first space, or all of it
FirstToken(line) ==
    trim(IF position_space(line) = 0 THEN line
         ELSE SubSeq(line, 1, position_space(line) - 1))

\* the most recent decode call started a request with a whole line in the
\* buffer
FreshLine ==
    /\ last.r.tag # ""
    /\ last.codec.command = None
    /\ position_newline(last.src) # 0

\* C3: a complete line whose first token is no known command is emitted as
\* Unsupported by the call that sees it, and a connection that sent only
\* such a line has been answered ERROR\r\n once decode is out of input.
C3_UnknownLineAnswered ==
    /\ (/\ FreshLine
        /\ FirstToken(FirstLine(last.src)) # <<>>
        /\ Variant(FirstToken(FirstLine(last.src))) = "Unsupported")
       => last.r.tag = "Some" /\ last.r.req.op = "Unsupported"
    /\ (input = <<ReqUnknown>> /\ wire = <<>> /\ Quiescent /\ pc = "next")
       => out = <<TxtError>>

\* C4: a line that is just stats or version (CR optional) is emitted as
\* Stats or Version by the decode call that sees its LF.
C4_StatsVersionNeedNoSpace ==
    (FreshLine /\ trim(FirstLine(last.src)) \in {CmdStats, CmdVersion})
    => /\ last.r.tag = "Some"
       /\ last.r.req.op = Variant(trim(FirstLine(last.src)))

\* the slots in the order decode fills them across calls
SlotOrder == <<"command", "key", "flags", "expire", "number_of_bytes">>

\* bytes is exactly the tokens, each with its delimiter, of the slots that
\* are empty in c0 and filled in c1
RECURSIVE Accounted(_, _, _, _)
Accounted(bytes, names, c0, c1) ==
    IF names = <<>> THEN bytes = <<>>
    ELSE IF c0[Head(names)] # None \/ c1[Head(names)] = None
         THEN Accounted(bytes, Tail(names), c0, c1)
    ELSE LET t == IF Head(names) = "number_of_bytes" THEN substring_newlined(bytes)
                  ELSE substring_spaced(bytes)
         IN t.tag = "Some" /\ Accounted(t.src, Tail(names), c0, c1)

\* C5: a decode call that returns None has removed from the buffer only
\* tokens whose slot it filled.
C5_NoneKeepsUnstoredBytes ==
    last.r.tag = "None"
    => Accounted(SubSeq(last.src, 1, Consumed), SlotOrder, last.codec, last.r.codec)

\* C6: after a decode call that returned a request all six slots are empty.
C6_SlotsEmptyAfterEmission ==
    last.r.tag = "Some" => codec = MemcachedCodec_default

\* a request was emitted by a call that started with key, flags, expire and
\* number_of_bytes filled by earlier calls
C6_Witness ==
    /\ last.r.tag = "Some"
    /\ last.codec.command # None
    /\ last.codec.number_of_bytes # None
    /\ codec = MemcachedCodec_default

\* the leading whitespace a fresh command token starts behind
LeadingWhitespace(bytes) == Len(bytes) - Len(trim_start(bytes))

\* the index in the buffer of the LF that ends the command line the call
\* works on (0: the LF has not arrived)
LineEnd ==
    LET skip == IF last.codec.command = None THEN LeadingWhitespace(last.src) ELSE 0
        rest == SubSeq(last.src, skip + 1, Len(last.src))
    IN IF position_newline(rest) = 0 THEN 0 ELSE skip + position_newline(rest)

\* the length of the data block, once the call knows it
BlockLength(c) == IF c.number_of_bytes = None THEN 0 ELSE ToNat(c.number_of_bytes[1])

\* C7: a decode call that returns None or an error has taken no byte behind
\* the LF of the command line it works on, or behind the data block.
C7_FailureStaysInRequest ==
    last.r.tag \in {"None", "Err"}
    => IF last.codec.number_of_bytes # None THEN Consumed <= BlockLength(last.codec)
       ELSE LineEnd # 0 => Consumed <= LineEnd + BlockLength(last.r.codec)

\* a reply begins with the given bytes
StartsWith(bytes, prefix) ==
    Len(bytes) >= Len(prefix) /\ SubSeq(bytes, 1, Len(prefix)) = prefix

\* bytes is a reply the protocol allows to the item (a request or a decode
\* error) that framed.next() yielded
Answers(item, bytes) ==
    CASE item.tag = "Err" -> bytes = TxtClientError \o TxtInvalidData \o <<CR, LF>>
      [] item.req.op = "Unsupported" -> bytes = TxtError
      [] item.req.op = "Version" -> bytes = TxtVersion \o VERSION_STRING \o <<CR, LF>>
      [] item.req.op = "Stats" -> bytes = <<>>
      [] item.req.op = "Set" -> bytes = TxtStored
      [] item.req.op = "Add" -> bytes \in {TxtStored, TxtAlreadyExists}
      [] item.req.op \in {"Replace", "Append", "Prepend"} ->
            bytes \in {TxtStored, TxtNotFound}
      [] item.req.op = "Get" ->
            \/ bytes = TxtNotFound
            \/ StartsWith(bytes, TxtValue \o item.req.key \o <<SP>>)
      [] item.req.op = "Delete" -> bytes \in {TxtDeleted, TxtNotFound}
      [] item.req.op \in {"Incr", "Decr"} ->
            bytes \in {TxtStored, TxtNotFound, TxtFailedToParse}

\* C8: the replies on the socket answer the yielded items one for one and
\* in order; at most the newest item is unanswered, and while the handler
\* waits in framed.next() none is: a request is pulled only after the reply
\* to the one before it was sent.
C8_RepliesInRequestOrder ==
    /\ Len(out) <= Len(emitted)
    /\ Len(emitted) <= Len(out) + 1
    /\ \A i \in 1..Len(out) : Answers(emitted[i], out[i])
    /\ pc = "next" => Len(out) = Len(emitted)
    /\ pc = "call" => /\ Len(emitted) = Len(out) + 1
                      /\ emitted[Len(emitted)] = Item("Some", request)

\* two requests of different kinds were answered, each with its own reply,
\* and the handler is back in framed.next()
C8_Witness ==
    /\ Len(out) = 2
    /\ emitted[1].req.op = "Set"
    /\ out[1] = TxtStored
    /\ emitted[2].req.op = "Delete"
    /\ out[2] = TxtDeleted
    /\ pc = "next"

\* the reply to get k after ReqSet was stored
ReplyValueK == <<"V", "A", "L", "U", "E", SP, "k", SP, "1", SP, "2", CR, LF, "5", CR, LF, "E", "N", "D", CR, LF>>

\* C9: set k 1 2 1 with value 5 is answered STORED, and the get k that
\* follows it on the connection is answered with that value, flags and
\* expire.
C9_SetThenGet ==
    (Len(input) >= 2 /\ input[1] = ReqSet /\ input[2] = ReqGet)
    => /\ Len(out) >= 1 => out[1] = TxtStored
       /\ Len(out) >= 2 => out[2] = ReplyValueK

\* the get was decoded by one call that found the data block's CR LF at
\* the front of the buffer, and it has been answered
C9_Witness ==
    /\ input = <<ReqSet, ReqGet>>
    /\ out = <<TxtStored, ReplyValueK>>
    /\ last.r.tag = "Some"
    /\ last.r.req.op = "Get"
    /\ last.codec.command = None
    /\ StartsWith(last.src, <<CR, LF>>)

\* C10: when decode emits a request, what is left in the buffer is the
\* bytes that followed the request: the consumed part ends at the LF for
\* get, delete, incr and decr, and at the last data byte for a storage
\* command, whose line terminator stays at the front of the buffer.
C10_TrailingBytesKept ==
    last.r.tag = "Some"
    => /\ Consumed >= 1
       /\ last.r.src = SubSeq(last.src, Consumed + 1, Len(last.src))
       /\ src = last.r.src
       /\ last.r.req.op \in {"Get", "Delete", "Incr", "Decr"}
          => last.src[Consumed] = LF
       /\ last.r.req.op \in {"Set", "Add", "Replace", "Append", "Prepend"}
          => /\ Consumed >= Len(last.r.req.value)
             /\ SubSeq(last.src, Consumed - Len(last.r.req.value) + 1, Consumed)
                = last.r.req.value
             /\ Consumed > Len(last.r.req.value)
                => last.src[Consumed - Len(last.r.req.value)] = LF
       /\ (Len(emitted) = 1 /\ input[1] = ReqSet)
          => src = SubSeq(Delivered, Len(ReqSet) - 1, Len(Delivered))

\* a storage request was emitted and the CR LF behind its data block, with
\* the request after it, is what the buffer holds
C10_Witness ==
    /\ last.r.tag = "Some"
    /\ last.r.req.op = "Set"
    /\ input = <<ReqSet, ReqGet>>
    /\ src = <<CR, LF>> \o ReqGet

\* C11: the data block is taken by length alone.  A decode call that starts
\* with number_of_bytes = n known returns None and takes nothing while the
\* buffer holds fewer than n bytes; otherwise it takes exactly the first n
\* bytes, whatever they are, and the value of the emitted request is those
\* bytes (an error if they are not UTF-8).  The block LF SP of
\* set k 0 0 2 is emitted as the value LF SP, in however many pieces the
\* request arrives.
C11_OpaqueDataBlock ==
    /\ (last.r.tag # "" /\ last.codec.number_of_bytes # None)
       => IF Len(last.src) < BlockLength(last.codec)
          THEN last.r.tag = "None" /\ Consumed = 0
          ELSE /\ Consumed = BlockLength(last.codec)
               /\ IF IsUtf8(SubSeq(last.src, 1, BlockLength(last.codec)))
                  THEN /\ last.r.tag = "Some"
                       /\ last.r.req.value = SubSeq(last.src, 1, BlockLength(last.codec))
                  ELSE last.r.tag = "Err"
    /\ (input[1] = ReqOpaque /\ Len(emitted) >= 1)
       => emitted[1] = Item("Some", MemcachedRequest("Set", <<"k">>, <<"0">>, <<"0">>,
                                                     <<LF, SP>>, <<>>))

\* the block LF SP was emitted by a call that already knew its length and
\* found the block, its terminator and the next request in the buffer
C11_Witness ==
    /\ input = <<ReqOpaque, ReqGet>>
    /\ last.r.tag = "Some"
    /\ last.codec.number_of_bytes = Some(<<"2">>)
    /\ last.r.req.value = <<LF, SP>>
    /\ Len(last.src) > 2
    /\ src = <<LF>> \o ReqGet

\* the reply to a decode error
ReplyInvalidData == TxtClientError \o TxtInvalidData \o <<CR, LF>>

\* the most recent decode call started with the key of a storage command
\* known and found, next in the buffer, a complete flags token with a
\* character that is no digit
NonDigitFlagsRead ==
    /\ last.r.tag # ""
    /\ last.codec.command # None
    /\ trim(last.codec.command[1]) \in WriteCommands
    /\ last.codec.key # None
    /\ last.codec.flags = None
    /\ substring_spaced(last.src).tag = "Some"
    /\ u32_from_str(substring_spaced(last.src).val).kind = "InvalidDigit"

\* C20: an integer token with a character that is no digit makes the
\* request malformed: the decode call that reads it returns an error, and
\* the connection that sent set k x 0 1 is answered
\* CLIENT_ERROR Invalid data once its bytes are decoded.
C20_NonDigitIsDecodeError ==
    /\ NonDigitFlagsRead => last.r.tag = "Err"
    /\ (input = <<ReqBadFlags>> /\ wire = <<>> /\ Quiescent /\ pc = "next")
       => /\ Len(emitted) >= 1
          /\ emitted[1].tag = "Err"
          /\ out = <<ReplyInvalidData>>

\* C21: an unknown request consumes its whole line: the decode call that
\* emits Unsupported has removed the line up to and including its LF, and
\* nothing behind it, so that x k is one Unsupported and nothing more.
C21_UnknownConsumesLine ==
    /\ (last.r.tag = "Some" /\ last.r.req.op = "Unsupported")
       => LineEnd # 0 /\ Consumed = LineEnd
    /\ (input = <<ReqUnknownArg>> /\ wire = <<>> /\ Quiescent)
       => /\ emitted = <<Item("Some", MemcachedRequest("Unsupported", <<>>, <<>>, <<>>,
                                                       <<>>, <<>>))>>
          /\ src = <<>>

\* the delimiter of the token a decode call with slots c needs first:
\* SP, LF, or "data" once number_of_bytes is known
NextNeeded(c) ==
    IF c.command = None THEN SP
    ELSE IF trim(c.command[1]) \in WriteCommands
         THEN (IF c.key = None \/ c.flags = None \/ c.expire = None THEN SP
               ELSE IF c.number_of_bytes = None THEN LF
               ELSE "data")
    ELSE IF trim(c.command[1]) \in DiffCommands
         THEN (IF c.key = None THEN SP ELSE LF)
    ELSE LF

\* a decode call with slots c on the buffer bytes cannot make progress
CannotProgress(c, bytes) ==
    IF NextNeeded(c) = "data" THEN Len(bytes) < BlockLength(c)
    ELSE \A i \in 1..Len(bytes) : bytes[i] # NextNeeded(c)

\* C22: a decode call that cannot make progress (the delimiter of the
\* token it needs first is not in the buffer, or number_of_bytes is known
\* and the buffer is shorter) returns None and leaves the buffer and the
\* six slots as they were.
C22_NoProgressNoChange ==
    (last.r.tag # "" /\ CannotProgress(last.codec, last.src))
    => /\ last.r.tag = "None"
       /\ last.r.src = last.src
       /\ last.r.codec = last.codec
       /\ codec = last.codec

\* a call that found command, key, flags and expire filled and no LF for
\* number_of_bytes in a buffer that is not empty returned None
C22_Witness ==
    /\ last.r.tag = "None"
    /\ last.codec.expire # None
    /\ last.codec.number_of_bytes = None
    /\ last.src # <<>>
    /\ last.r.src = last.src
    /\ codec = last.codec

\* C24: a decode error is answered with one CLIENT_ERROR Invalid data and
\* no backend call, and the loop goes on: the connection is not closed
\* while every reply could be sent, and the get k that follows a request
\* with a decode error is decoded and answered.
C24_ErrorAnsweredLoopContinues ==
    /\ \A i \in 1..Len(out) : emitted[i].tag = "Err" => out[i] = ReplyInvalidData
    /\ pc = "call" => emitted[Len(emitted)].tag = "Some"
    /\ (Len(emitted) > Len(out) /\ emitted[Len(emitted)].tag = "Err")
       => pc \in {"send", "closed"}
    /\ pc = "closed" => Len(out) < Len(emitted)
    /\ (input = <<ReqBadUtf8, ReqGet>> /\ pc = "closed" /\ Len(out) = Len(emitted))
       => Len(out) = 2

\* the replies to Version and to Unsupported
ReplyVersion == TxtVersion \o VERSION_STRING \o <<CR, LF>>

OwnRequests == {"Version", "Unsupported"}

\* C26: Version and Unsupported are answered by the handler alone: no
\* backend call is awaited for them, the backend's map changes only in the
\* backend call of another request, Version is answered VERSION 0.1.0 and
\* Unsupported ERROR.
C26_OwnRepliesSkipBackend ==
    /\ [](/\ pc = "call" => request.op \notin OwnRequests
          /\ \A i \in 1..Len(out) :
                /\ (emitted[i].tag = "Some" /\ emitted[i].req.op = "Version")
                   => out[i] = ReplyVersion
                /\ (emitted[i].tag = "Some" /\ emitted[i].req.op = "Unsupported")
                   => out[i] = TxtError)
    /\ [][hash_map' # hash_map => (pc = "call" /\ request.op \notin OwnRequests)]_vars

\* a version and an unknown request were answered and the map is empty
C26_Witness ==
    /\ input = <<ReqVersionSp, ReqUnknownArg>>
    /\ Len(out) >= 2
    /\ out[1] = ReplyVersion
    /\ out[2] = TxtError
    /\ hash_map = EmptyMap

(***************************************************************************)
(* The codec's contracts, over CodecSpec.                                  *)
(***************************************************************************)
SlotNames == {"command", "key", "flags", "expire", "number_of_bytes", "diff"}

\* the slots filled in c hold the same values in d
KeepsFilled(c, d) == \A s \in SlotNames : c[s] # None => d[s] = c[s]

\* a call that started with the slots of c and returned r went on with the
\* command of c: it read no command token, and a request it returned is of
\* that command and carries the key, flags and expire c held
Resumes(c, r) ==
    /\ r.codec.command = IF r.tag = "Some" THEN None ELSE c.command
    /\ r.tag # "Some" => KeepsFilled(c, r.codec)
    /\ r.tag = "Some" =>
          /\ r.req.op = Variant(MatchedCommand(c.command[1]))
          /\ c.key # None => r.req.key = c.key[1]
          /\ c.flags # None => r.req.flags = c.flags[1]
          /\ c.expire # None => r.req.expire = c.expire[1]

\* C23: a decode call that returns an error leaves every slot that was
\* filled before it as it was, the slots stay so until the next call, and
\* the next call starts from them: with the command slot filled it goes on
\* with that command instead of reading a command token.
C23_ErrorKeepsSlots ==
    /\ [](last.r.tag = "Err"
          => KeepsFilled(last.codec, last.r.codec) /\ codec = last.r.codec)
    /\ [][(last.r.tag = "Err" /\ last' # last)
          => /\ last'.codec = last.r.codec
             /\ last.r.codec.command # None => Resumes(last.r.codec, last'.r)]_vars

\* flags out of range made the first call fail; a later call took the
\* tokens that follow for flags, expire and number_of_bytes of the same set
C23_Witness ==
    /\ input = <<BytesBigFlags>>
    /\ emitted = <<Item("Err", NoRequest),
                   Item("Some", MemcachedRequest("Set", <<"k">>, <<"7">>, <<"8">>,
                                                 <<"a">>, <<>>))>>

\* a token of ASCII digits only, at least one
AllDigits(t) == t # <<>> /\ \A i \in 1..Len(t) : IsDigit(t[i])

\* t is written like an integer a slot takes: digits, for diff after an
\* optional minus sign
IntegerSyntax(slot, t) ==
    IF slot = "diff" /\ t # <<>> /\ t[1] = "-" THEN AllDigits(Tail(t)) ELSE AllDigits(t)

\* the value of t is one the type of the slot holds
InRange(slot, t) ==
    CASE slot = "flags" -> ~MagLess(U32_MAX, t)
      [] slot \in {"expire", "number_of_bytes"} -> ~MagLess(U64_MAX, t)
      [] slot = "diff" -> IF t[1] = "-" THEN ~MagLess(I64_MIN_MAGNITUDE, Tail(t))
                          ELSE ~MagLess(I64_MAX, t)

\* the integer slot a call that starts with the slots of c reads first
\* ("" when it first reads something else)
NextInteger(c) ==
    IF c.command = None \/ c.key = None THEN ""
    ELSE IF trim(c.command[1]) \in DiffCommands THEN "diff"
    ELSE IF trim(c.command[1]) \notin WriteCommands THEN ""
    ELSE IF c.flags = None THEN "flags"
    ELSE IF c.expire = None THEN "expire"
    ELSE IF c.number_of_bytes = None THEN "number_of_bytes"
    ELSE ""

\* the delimiter that ends the token of a slot
Delimiter(slot) == IF slot \in {"number_of_bytes", "diff"} THEN LF ELSE SP

\* the token a buffer holds for a slot: the bytes before the delimiter,
\* without the whitespace at their end
TokenFor(slot, bytes) ==
    trim_end(SubSeq(bytes, 1, Position(bytes, Delimiter(slot)) - 1))

\* the slot whose token is out of range or empty in each of these inputs
FailingSlot(bytes) ==
    CASE bytes \in {BytesBigFlags, BytesNoFlags} -> "flags"
      [] bytes \in {BytesBigExpire, BytesNoExpire} -> "expire"
      [] bytes \in {BytesBigLength, BytesNoLength} -> "number_of_bytes"
      [] OTHER -> "diff"

\* C25: a decode call whose next token is for an integer slot and is empty
\* or all digits but out of the slot's range returns an error and leaves
\* the slot empty; the requests with such a token fail at it; and no slot
\* and no request ever holds a value outside the range of its type.
C25_OutOfRangeIsError ==
    /\ (/\ last.r.tag # ""
        /\ NextInteger(last.codec) # ""
        /\ Position(last.src, Delimiter(NextInteger(last.codec))) # 0
        /\ \/ TokenFor(NextInteger(last.codec), last.src) = <<>>
           \/ /\ IntegerSyntax(NextInteger(last.codec),
                               TokenFor(NextInteger(last.codec), last.src))
              /\ ~InRange(NextInteger(last.codec),
                          TokenFor(NextInteger(last.codec), last.src)))
       => last.r.tag = "Err" /\ last.r.codec[NextInteger(last.codec)] = None
    /\ (input[1] \in OutOfRangeBytes \cup EmptyTokenBytes /\ emitted # <<>>)
       => /\ emitted[1].tag = "Err"
          /\ (Len(emitted) = 1 /\ last.r.tag = "Err")
             => codec[FailingSlot(input[1])] = None
    /\ \A slot \in {"flags", "expire", "number_of_bytes", "diff"} :
          codec[slot] # None
          => IntegerSyntax(slot, codec[slot][1]) /\ InRange(slot, codec[slot][1])
    /\ \A i \in 1..Len(emitted) :
          /\ emitted[i].req.flags # <<>> => InRange("flags", emitted[i].req.flags)
          /\ emitted[i].req.expire # <<>> => InRange("expire", emitted[i].req.expire)
          /\ emitted[i].req.diff # <<>> => InRange("diff", emitted[i].req.diff)

\* a call that started at the flags token 4294967296 returned the error
C25_Witness ==
    /\ input = <<BytesBigFlags>>
    /\ last.r.tag = "Err"
    /\ last.codec.key # None
    /\ last.codec.flags = None
    /\ TokenFor("flags", last.src) = TwoPow32
    /\ codec.flags = None

\* C28: between decode calls, also after an error, the slots are filled in
\* order (a filled key needs the command, filled flags the key, a filled
\* expire the flags, a filled number_of_bytes the expire), flags, expire
\* and number_of_bytes are filled only under a storage command, and the
\* diff slot is empty.
C28_SlotsFilledInOrder ==
    /\ codec.key # None => codec.command # None
    /\ codec.flags # None => codec.key # None
    /\ codec.expire # None => codec.flags # None
    /\ codec.number_of_bytes # None => codec.expire # None
    /\ (codec.flags # None \/ codec.expire # None \/ codec.number_of_bytes # None)
       => (codec.command # None /\ trim(codec.command[1]) \in WriteCommands)
    /\ codec.diff = None

\* the data block was not UTF-8: the error left the five slots of set
\* filled
C28_Witness ==
    /\ last.r.tag = "Err"
    /\ codec.command # None
    /\ codec.key # None
    /\ codec.flags # None
    /\ codec.expire # None
    /\ codec.number_of_bytes # None

(***************************************************************************)
(* The backend contracts, over StorageSpec.  A contract is read off the    *)
(* call that returned last: its arguments, the map before and after, and   *)
(* the result.                                                             *)
(***************************************************************************)
\* the map m with key bound to the entry (value, flags, expire)
With(m, key, value, flags, expire) ==
    [k \in DOMAIN m \cup {key} |->
        IF k = key THEN [value |-> value, flags |-> flags, expire |-> expire]
        ELSE m[k]]

Present(m, key) == key \in DOMAIN m

\* the call that returned last is a get that followed a call of operation
\* op with result kind
GetFollows(op, kind) ==
    /\ returned.call.op = "Get"
    /\ returned.prior.call.op = op
    /\ returned.prior.call.key = returned.call.key
    /\ returned.prior.res.kind = kind

\* C12: add installs the entry and returns Stored if and only if the key is
\* absent; on a present key it returns AlreadyExists and the map, with the
\* value and options of that key, is unchanged.
C12_AddIffAbsent ==
    returned.call.op = "Add"
    => IF Present(returned.pre, returned.call.key)
       THEN returned.res.kind = "AlreadyExists" /\ returned.post = returned.pre
       ELSE /\ returned.res.kind = "Stored"
            /\ returned.post = With(returned.pre, returned.call.key, returned.call.value,
                                    returned.call.flags, returned.call.expire)

\* an add on the key holding 5 with options (1, 2) was refused
C12_Witness ==
    /\ returned.call.op = "Add"
    /\ returned.res.kind = "AlreadyExists"
    /\ hash_map = With(EmptyMap, K, <<"5">>, <<"1">>, <<"2">>)

\* C13: replace installs the new value and options and returns Stored if
\* and only if the key is present; on an absent key it returns NotFound,
\* the key stays absent and the get that follows returns NotFound.
C13_ReplaceIffPresent ==
    /\ returned.call.op = "Replace"
       => IF Present(returned.pre, returned.call.key)
          THEN /\ returned.res.kind = "Stored"
               /\ returned.post = With(returned.pre, returned.call.key,
                                       returned.call.value, returned.call.flags,
                                       returned.call.expire)
          ELSE /\ returned.res.kind = "NotFound"
               /\ returned.post = returned.pre
               /\ ~Present(hash_map, returned.call.key)
    /\ GetFollows("Replace", "NotFound") => returned.res.kind = "NotFound"

\* a replace of an absent key returned NotFound and so did the get after it
C13_Witness ==
    /\ GetFollows("Replace", "NotFound")
    /\ returned.res.kind = "NotFound"
    /\ hash_map = EmptyMap

\* C14: append and prepend on a present key store old o new, respectively
\* new o old, with the flags and expire of the call, and return Stored; on
\* an absent key they return NotFound and create no entry.
C14_AppendPrepend ==
    returned.call.op \in {"Append", "Prepend"}
    => IF Present(returned.pre, returned.call.key)
       THEN /\ returned.res.kind = "Stored"
            /\ returned.post =
                  With(returned.pre, returned.call.key,
                       IF returned.call.op = "Append"
                       THEN returned.pre[returned.call.key].value \o returned.call.value
                       ELSE returned.call.value \o returned.pre[returned.call.key].value,
                       returned.call.flags, returned.call.expire)
       ELSE /\ returned.res.kind = "NotFound"
            /\ returned.post = returned.pre
            /\ ~Present(hash_map, returned.call.key)

\* b was appended to 5b, an entry with the options (7, 9) of an earlier
\* append, or to 5 with its first options (1, 2)
C14_Witness ==
    /\ returned.call.op = "Append"
    /\ returned.res.kind = "Stored"
    /\ returned.pre = With(EmptyMap, K, <<"5">>, <<"1">>, <<"2">>)
    /\ hash_map = With(EmptyMap, K, <<"5", "b">>, <<"7">>, <<"9">>)

\* the stored value parses as a signed 64-bit integer
IsI64(value) == i64_from_str(value).kind = "Ok"

\* C15: increment(key, d) on a key whose value parses as the i64 v stores
\* the decimal string of v + d and returns Stored, decrement stores v - d,
\* for every v and d, with the flags and expire of the entry unchanged.
C15_ArithExact ==
    (/\ returned.call.op \in ArithOps
     /\ Present(returned.pre, returned.call.key)
     /\ IsI64(returned.pre[returned.call.key].value))
    => /\ returned.res.kind = "Stored"
       /\ returned.post =
             With(returned.pre, returned.call.key,
                  SignedAdd(i64_from_str(returned.pre[returned.call.key].value).val,
                            IF returned.call.op = "Incr" THEN returned.call.diff
                            ELSE Negate(returned.call.diff)),
                  returned.pre[returned.call.key].flags,
                  returned.pre[returned.call.key].expire)

\* C16: increment and decrement on a key whose value is no signed 64-bit
\* integer return FailedToParseInteger and leave the entry as it was; on an
\* absent key they return NotFound and create no entry.
C16_ArithFailuresKeepMap ==
    returned.call.op \in ArithOps
    => /\ ~Present(returned.pre, returned.call.key)
          => /\ returned.res.kind = "NotFound"
             /\ returned.post = returned.pre
             /\ ~Present(hash_map, returned.call.key)
       /\ (/\ Present(returned.pre, returned.call.key)
           /\ ~IsI64(returned.pre[returned.call.key].value))
          => /\ returned.res.kind = "FailedToParseInteger"
             /\ returned.post = returned.pre
             /\ hash_map[returned.call.key] = returned.pre[returned.call.key]

\* a decrement was refused on the value 5b that an append had made of 5
C16_Witness ==
    /\ returned.call.op = "Decr"
    /\ returned.res.kind = "FailedToParseInteger"
    /\ returned.prior.call.op = "Append"
    /\ hash_map = With(EmptyMap, K, <<"5", "b">>, <<"7">>, <<"9">>)

\* C17: delete on a present key removes it and returns Deleted; from then
\* on, as long as the key is absent, get returns NotFound.  Delete on an
\* absent key returns NotFound and changes nothing.
C17_DeleteThenGet ==
    /\ returned.call.op = "Delete"
       => IF Present(returned.pre, returned.call.key)
          THEN /\ returned.res.kind = "Deleted"
               /\ ~Present(returned.post, returned.call.key)
               /\ \A k \in DOMAIN returned.pre \ {returned.call.key} :
                     Present(returned.post, k) /\ returned.post[k] = returned.pre[k]
               /\ ~Present(hash_map, returned.call.key)
          ELSE returned.res.kind = "NotFound" /\ returned.post = returned.pre
    /\ returned.call.op = "Get"
       => (returned.res.kind = "NotFound" <=> ~Present(returned.pre, returned.call.key))
    /\ GetFollows("Delete", "Deleted") => returned.res.kind = "NotFound"

\* the key was deleted and the get after the delete returned NotFound
C17_Witness ==
    /\ GetFollows("Delete", "Deleted")
    /\ returned.res.kind = "NotFound"
    /\ hash_map = EmptyMap

\* no call is in progress
NoCallInProgress == \A t \in Tasks : task[t].pc \in {"idle", "panicked"}

\* C18: the key held the integer v0 and nothing but increment and decrement
\* has changed the map: once the calls have returned, the value is v0 plus
\* the diffs of the increments minus the diffs of the decrements.
C18_NoLostUpdate ==
    (/\ NoCallInProgress
     /\ ledger.clean
     /\ ledger.v0 # None
     /\ IsI64(ledger.v0[1]))
    => /\ Present(hash_map, K)
       /\ hash_map[K].value = SignedAdd(i64_from_str(ledger.v0[1]).val, ledger.diffs)

\* the same with every sum inside the signed 64-bit range: no interleaving
\* of the tasks loses an update
NoLostUpdateInRange ==
    (/\ NoCallInProgress
     /\ ledger.clean
     /\ ledger.v0 # None
     /\ IsI64(ledger.v0[1])
     /\ ledger.v0[1] # I64_MAX)
    => /\ Present(hash_map, K)
       /\ hash_map[K].value = SignedAdd(i64_from_str(ledger.v0[1]).val, ledger.diffs)

\* C27: while the key was absent at the start and every call made so far
\* is an add (or a get), at most one add has returned Stored, an add that
\* returned AlreadyExists came after one that returned Stored, and the
\* entry of the key holds the value and options of the add that returned
\* Stored.
C27_AddExclusive ==
    (ledger.v0 = None /\ ledger.adds_only)
    => /\ Len(ledger.stored) <= 1
       /\ ledger.refused > 0 => Len(ledger.stored) = 1
       /\ Len(ledger.stored) = 1
          => /\ contains_key(hash_map, K)
             /\ hash_map[K] = McdValue_new(ledger.stored[1].value,
                                           ledger.stored[1].flags,
                                           ledger.stored[1].expire)
       /\ Len(ledger.stored) = 0 => ~contains_key(hash_map, K)

\* two tasks added different values to the absent key: the add of "8"
\* returned Stored and the add of "6", whose task had asked for the lock
\* meanwhile, returned AlreadyExists
C27_Witness ==
    /\ ledger.v0 = None
    /\ ledger.adds_only
    /\ Len(ledger.stored) = 1
    /\ ledger.stored[1].value = <<"8">>
    /\ ledger.refused = 1
    /\ returned.res.kind = "AlreadyExists"
    /\ returned.call.value = <<"6">>
    /\ returned.prior.res.kind = "Stored"
    /\ hash_map[K].value = <<"8">>

(***************************************************************************)
(* Several connections, over ServerSpec.                                   *)
(***************************************************************************)
\* connection c read the next n bytes of its wire and nothing else of its
\* codec state changed
OwnRead(c, n) ==
    /\ conns'[c].src = conns[c].src \o SubSeq(conns[c].wire, 1, n)
    /\ conns'[c].wire = SubSeq(conns[c].wire, n + 1, Len(conns[c].wire))
    /\ conns'[c].emitted = conns[c].emitted
    /\ codecs'[c] = codecs[c]

\* connection c went through the decode call r on its own slots and buffer
OwnDecode(c, r) ==
    /\ conns'[c].src = r.src
    /\ conns'[c].wire = conns[c].wire
    /\ conns'[c].emitted = IF r.tag = "None" THEN conns[c].emitted
                           ELSE Append(conns[c].emitted, Item(r.tag, r.req))
    /\ codecs'[c] = r.codec

\* C19: connections share no codec state.  In every step, the slots, the
\* buffer and the decoded requests of a connection either stay as they
\* are, or change by a read of that connection's own bytes, or change to
\* what decode makes of that connection's own slots and buffer: what a
\* connection decodes is a function of the bytes it received, whatever the
\* other connections read and decode in between.
C19_CodecsNotShared ==
    [][\A c \in Connections :
          \/ UNCHANGED <<conns[c].src, conns[c].wire, conns[c].emitted, codecs[c]>>
          \/ \E n \in 1..Len(conns[c].wire) : OwnRead(c, n)
          \/ OwnDecode(c, decode(codecs[c], conns[c].src))]_vars

\* two connections are in the middle of different requests at once, and
\* one of them has its key slot filled
C19_Witness ==
    /\ codecs[1].command # None
    /\ codecs[2].command # None
    /\ codecs[1].command # codecs[2].command
    /\ codecs[2].key # None
    /\ codecs[1].key = None

=============================================================================
